---- MODULE Spec2Model ----
(***************************************************************************)
(* Model of pet::control::Mpc (pet_mk_iv_control/src/mpc.cpp): the         *)
(* receding-horizon trajectory optimizer, its setters, the penalty         *)
(* iteration of solve() and the read-out get_optimal_path().               *)
(*                                                                         *)
(* Vectors are sequences; C++ index i is TLA+ index i+1.  Rotations are    *)
(* 2x2 matrices in Eigen's column-major order <<m00, m10, m01, m11>>,      *)
(* restricted to quarter turns so that all arithmetic is exact.  Costs are *)
(* counted in thousandths.                                                 *)
(*                                                                         *)
(* A second specification, FirmwareSpec, models setup() and loop() of the  *)
(* Arduino firmware (pet_mk_iv_arduino/firmware/src/main.cpp).             *)
(***************************************************************************)
EXTENDS Integers, Sequences, FiniteSets, TLC

\* ---------------------------------------------------------------- bounds
MaxCalls == 4
MaxPathLen == 3
FwClockValues == 4
FwMaxResponses == 2

\* ---------------------------------------------------------------- inputs
InputPoses ==
    { [position |-> <<0, 0, 0>>, orientation |-> <<1, 0, 0, 0>>],
      [position |-> <<1, 0, 1>>, orientation |-> <<1, 0, 0, 1>>] }

InputTwists ==
    { [linear |-> <<0, 0, 0>>, angular |-> <<0, 0, 0>>],
      [linear |-> <<1, 1, 0>>, angular |-> <<0, 0, 1>>] }

\* Reference paths: every prefix of a path that stays at the origin and of a
\* path that alternates between the two input poses.
InputPaths ==
    UNION { { [i \in 1..L |-> [position |-> <<0, 0, 0>>, orientation |-> <<1, 0, 0, 0>>]],
              [i \in 1..L |-> IF i % 2 = 1
                                 THEN [position |-> <<1, 0, 1>>, orientation |-> <<1, 0, 0, 1>>]
                                 ELSE [position |-> <<0, 0, 0>>, orientation |-> <<1, 0, 0, 0>>]] }
            : L \in 1..MaxPathLen }

\* The Options an instance is constructed with (time in steps, cost in
\* thousandths).
OptionSets ==
    [ max_num_poses : {2, 3},
      time_step : {1},
      max_penalty_iterations : {0, 1, 2},
      penalty_increase_factor : {2, 5},
      max_constraint_cost : {10},
      reference_loss_factor : {20},
      velocity_loss_factor : {1} ]

\* What an out-of-range read of a vector can yield, besides a crash.
GarbagePoses ==
    { [position |-> <<0, 0, 0>>, orientation |-> <<1, 0, 0, 0>>],
      [position |-> <<7, 7, 0>>, orientation |-> <<0, 0, 0, 1>>] }

\* ---------------------------------------------------------------- state
VARIABLES
    m_options,
    m_rotations, m_positions, m_twists,
    m_reference_rotations, m_reference_positions,
    m_reference_path_set, m_problem_size,
    m_constraint_penalty_coefficient_handle,
    m_kinematic_constraint_residuals,
    problem,                 \* the ceres::Problem local to solve()
    pc, iteration, penalty_coefficient,   \* position and locals of solve()
    \* observations of the calls made so far
    calls, last_call, last_path, raised, warned, engine_calls,
    coefficient_log, feasible_log, solve_count, setter_since_solve,
    optimal_path, read_out_of_range,
    \* the firmware: position in setup() / loop(), the node handle, the timer
    fw_pc, fw_last_sync_time, fw_result, fw_timer_started, fw_timer_spun,
    nh_connected, nh_sync_receive_time, nh_sync_requested, fw_clock,
    fw_reported_connected, fw_responses, fw_responses_at_read

firmware ==
    << fw_pc, fw_last_sync_time, fw_result, fw_timer_started, fw_timer_spun,
       nh_connected, nh_sync_receive_time, nh_sync_requested, fw_clock,
       fw_reported_connected, fw_responses, fw_responses_at_read >>

object ==
    << m_rotations, m_positions, m_twists,
       m_reference_rotations, m_reference_positions,
       m_reference_path_set, m_problem_size,
       m_constraint_penalty_coefficient_handle,
       m_kinematic_constraint_residuals >>

locals == << problem, pc, iteration, penalty_coefficient >>

solve_obs == << raised, warned, engine_calls, coefficient_log, feasible_log >>

mpc ==
    << m_options, object, locals, calls, last_call, last_path, solve_obs,
       solve_count, setter_since_solve, optimal_path, read_out_of_range >>

vars == << mpc, firmware >>

\* ---------------------------------------------------------------- helpers
Min(a, b) == IF a < b THEN a ELSE b

Identity2d == <<1, 0, 0, 1>>

\* Product of two 2x2 matrices in column-major order.
MatMul(a, b) ==
    << a[1] * b[1] + a[3] * b[2], a[2] * b[1] + a[4] * b[2],
       a[1] * b[3] + a[3] * b[4], a[2] * b[3] + a[4] * b[4] >>

\* Rotation by k quarter turns.
RECURSIVE QuarterTurns(_)
QuarterTurns(k) ==
    IF k % 4 = 0 THEN Identity2d
    ELSE MatMul(<<0, 1, -1, 0>>, QuarterTurns((k % 4) - 1))

\* Matrix applied to a 2-vector.
Rotate(r, v) == << r[1] * v[1] + r[3] * v[2], r[2] * v[1] + r[4] * v[2] >>

\* Number of quarter turns (0..3) a rotation matrix stands for.
AngleOf(r) ==
    CASE r = <<1, 0, 0, 1>> -> 0
      [] r = <<0, 1, -1, 0>> -> 1
      [] r = <<-1, 0, 0, -1>> -> 2
      [] OTHER -> 3

\* SO2<double>::from_quaternion: planar rotation of a (not necessarily
\* normalised) quaternion <<w, x, y, z>> about the z axis.
from_quaternion(q) ==
    LET n == q[1] * q[1] + q[4] * q[4]
        c == (q[1] * q[1] - q[4] * q[4]) \div n
        s == (2 * q[1] * q[4]) \div n
    IN  << c, s, 0 - s, c >>

\* SO2<double>::to_quaternion, up to a positive scale.
to_quaternion(r) ==
    CASE AngleOf(r) = 0 -> <<1, 0, 0, 0>>
      [] AngleOf(r) = 1 -> <<1, 0, 0, 1>>
      [] AngleOf(r) = 2 -> <<0, 0, 0, 1>>
      [] OTHER -> <<1, 0, 0, -1>>

\* KinematicModel::propagate: rigid-body motion of a pose under a body twist
\* <<angular, forward, lateral>> over dt.
propagate(pose, twist, dt) ==
    [ rotation |-> MatMul(pose.rotation, QuarterTurns(twist[1] * dt)),
      position |-> << pose.position[1] + Rotate(pose.rotation, <<twist[2], twist[3]>>)[1] * dt,
                      pose.position[2] + Rotate(pose.rotation, <<twist[2], twist[3]>>)[2] * dt >> ]

\* Signed angle error in quarter turns, in -1..2.
AngleError(a, b) ==
    LET d == (AngleOf(a) - AngleOf(b) + 4) % 4 IN IF d = 3 THEN 0 - 1 ELSE d

\* Cost (half the squared norm, in thousandths) of the
\* KinematicConstraintPenaltyResidual of step i against step i-1.
KinematicCost(rots, poss, tws, i, dt) ==
    LET predicted == propagate([rotation |-> rots[i], position |-> poss[i]], tws[i], dt)
        da == AngleError(rots[i + 1], predicted.rotation)
        dx == poss[i + 1][1] - predicted.position[1]
        dy == poss[i + 1][2] - predicted.position[2]
    IN  500 * (da * da + dx * dx + dy * dy)

\* A ceres::Problem without parameter or residual blocks.
NoProblem ==
    [blocks |-> {}, constant |-> {}, fixed_twist_components |-> {}, residuals |-> << >>]

\* ---------------------------------------------------------------- Mpc::Mpc
Init ==
    /\ m_options \in OptionSets
    /\ m_rotations = << Identity2d >>
    /\ m_positions = << <<0, 0>> >>
    /\ m_twists = << <<0, 0, 0>> >>
    /\ m_reference_rotations = << >>
    /\ m_reference_positions = << >>
    /\ m_reference_path_set = FALSE
    /\ m_problem_size = 0
    /\ m_constraint_penalty_coefficient_handle = << >>
    /\ m_kinematic_constraint_residuals = << >>
    /\ problem = NoProblem
    /\ pc = "idle"
    /\ iteration = 0
    /\ penalty_coefficient = 1
    /\ calls = 0
    /\ last_call = "none"
    /\ last_path = << >>
    /\ raised = FALSE
    /\ warned = FALSE
    /\ engine_calls = 0
    /\ coefficient_log = << >>
    /\ feasible_log = << >>
    /\ solve_count = 0
    /\ setter_since_solve = FALSE
    /\ optimal_path = [frame_id |-> "", poses |-> << >>]
    /\ read_out_of_range = FALSE
    /\ fw_pc = "initNode"
    /\ fw_last_sync_time = 0
    /\ fw_result = "none"
    /\ fw_timer_started = FALSE
    /\ fw_timer_spun = FALSE
    /\ nh_connected = FALSE
    /\ nh_sync_receive_time = 0
    /\ nh_sync_requested = FALSE
    /\ fw_clock = 0
    /\ fw_reported_connected = FALSE
    /\ fw_responses = 0
    /\ fw_responses_at_read = 0

CallEntry(name) ==
    /\ pc = "idle"
    /\ calls < MaxCalls
    /\ calls' = calls + 1
    /\ last_call' = name

\* ---------------------------------------------------------------- setters
\* Mutant: the stored reference is not cleared before the new one is added.
set_reference_path_appending(reference_path) ==
    /\ CallEntry("set_reference_path")
    /\ Len(reference_path) > 0
    /\ m_problem_size' = Min(Len(reference_path), m_options.max_num_poses)
    /\ m_reference_positions' = m_reference_positions \o
           [i \in 1..m_problem_size' |->
               << reference_path[i].position[1], reference_path[i].position[2] >>]
    /\ m_reference_rotations' = m_reference_rotations \o
           [i \in 1..m_problem_size' |-> from_quaternion(reference_path[i].orientation)]
    /\ m_reference_path_set' = TRUE
    /\ last_path' = reference_path
    /\ setter_since_solve' = TRUE
    /\ UNCHANGED << firmware, m_options, m_rotations, m_positions, m_twists,
                    m_constraint_penalty_coefficient_handle,
                    m_kinematic_constraint_residuals, locals, solve_obs,
                    solve_count, optimal_path, read_out_of_range >>

set_reference_path(reference_path) ==
    /\ CallEntry("set_reference_path")
    /\ Len(reference_path) > 0
    /\ m_problem_size' = Min(Len(reference_path), m_options.max_num_poses)
    /\ m_reference_positions' =
           [i \in 1..m_problem_size' |->
               << reference_path[i].position[1], reference_path[i].position[2] >>]
    /\ m_reference_rotations' =
           [i \in 1..m_problem_size' |-> from_quaternion(reference_path[i].orientation)]
    /\ m_reference_path_set' = TRUE
    /\ last_path' = reference_path
    /\ setter_since_solve' = TRUE
    /\ UNCHANGED << firmware, m_options, m_rotations, m_positions, m_twists,
                    m_constraint_penalty_coefficient_handle,
                    m_kinematic_constraint_residuals, locals, solve_obs,
                    solve_count, optimal_path, read_out_of_range >>

set_initial_pose(initial_pose) ==
    /\ CallEntry("set_initial_pose")
    /\ m_positions' = << << initial_pose.position[1], initial_pose.position[2] >> >>
    /\ m_rotations' = << from_quaternion(initial_pose.orientation) >>
    /\ setter_since_solve' = TRUE
    /\ UNCHANGED << firmware, m_options, m_twists, m_reference_rotations, m_reference_positions,
                    m_reference_path_set, m_problem_size,
                    m_constraint_penalty_coefficient_handle,
                    m_kinematic_constraint_residuals, locals, last_path, solve_obs,
                    solve_count, optimal_path, read_out_of_range >>

set_initial_twist(initial_twist) ==
    /\ CallEntry("set_initial_twist")
    /\ m_twists' = << << initial_twist.angular[3], initial_twist.linear[1],
                         initial_twist.linear[2] >> >>
    /\ setter_since_solve' = TRUE
    /\ UNCHANGED << firmware, m_options, m_rotations, m_positions,
                    m_reference_rotations, m_reference_positions,
                    m_reference_path_set, m_problem_size,
                    m_constraint_penalty_coefficient_handle,
                    m_kinematic_constraint_residuals, locals, last_path, solve_obs,
                    solve_count, optimal_path, read_out_of_range >>

\* ---------------------------------------------------------------- solve()
\* Mpc::generate_initial_values: appends the poses propagated from entry 0
\* under the constant twist of entry 0 to the buffers as they are.
RECURSIVE GenerateFrom(_, _, _, _)
GenerateFrom(i, prev_pose, twist, bufs) ==
    IF i < m_problem_size
    THEN LET next_pose == propagate(prev_pose, twist, m_options.time_step)
         IN  GenerateFrom(i + 1, next_pose, twist,
                 [rotations |-> Append(bufs.rotations, next_pose.rotation),
                  positions |-> Append(bufs.positions, next_pose.position),
                  twists |-> Append(bufs.twists, twist)])
    ELSE bufs

\* Mutant: the propagation loop starts one step late.
generate_initial_values_late ==
    GenerateFrom(2, [rotation |-> m_rotations[1], position |-> m_positions[1]],
                 m_twists[1],
                 [rotations |-> m_rotations, positions |-> m_positions, twists |-> m_twists])

generate_initial_values ==
    GenerateFrom(1, [rotation |-> m_rotations[1], position |-> m_positions[1]],
                 m_twists[1],
                 [rotations |-> m_rotations, positions |-> m_positions, twists |-> m_twists])

\* Mpc::build_optimization_problem: the parameter blocks (buffer, index), the
\* blocks held constant, the twist components the subset parameterization
\* fixes, and the residual blocks in the order they are added; a residual
\* block's id is its place in that order.
\* Mutant: the reference blocks are not set constant.
RECURSIVE BuildFromFreeReference(_, _)
BuildFromFreeReference(i, p) ==
    IF i < m_problem_size
    THEN BuildFromFreeReference(i + 1,
             [blocks |-> p.blocks \cup
                  { <<"m_rotations", i>>, <<"m_positions", i>>,
                    <<"m_reference_rotations", i>>, <<"m_reference_positions", i>>,
                    <<"m_twists", i>> },
              constant |-> p.constant,
              fixed_twist_components |-> p.fixed_twist_components,
              residuals |-> p.residuals \o
                  << [kind |-> "reference", step |-> i,
                      blocks |-> << <<"m_reference_rotations", i>>,
                                    <<"m_reference_positions", i>>,
                                    <<"m_rotations", i>>, <<"m_positions", i>> >>],
                     [kind |-> "velocity", step |-> i,
                      blocks |-> << <<"m_twists", i>>, <<"m_twists", i - 1>> >>],
                     [kind |-> "kinematic", step |-> i,
                      blocks |-> << <<"m_rotations", i>>, <<"m_positions", i>>,
                                    <<"m_rotations", i - 1>>, <<"m_positions", i - 1>>,
                                    <<"m_twists", i - 1>> >>] >>])
    ELSE p

RECURSIVE BuildFrom(_, _)
BuildFrom(i, p) ==
    IF i < m_problem_size
    THEN BuildFrom(i + 1,
             [blocks |-> p.blocks \cup
                  { <<"m_rotations", i>>, <<"m_positions", i>>,
                    <<"m_reference_rotations", i>>, <<"m_reference_positions", i>>,
                    <<"m_twists", i>> },
              constant |-> p.constant \cup
                  { <<"m_reference_rotations", i>>, <<"m_reference_positions", i>> },
              fixed_twist_components |-> p.fixed_twist_components,
              residuals |-> p.residuals \o
                  << [kind |-> "reference", step |-> i,
                      blocks |-> << <<"m_reference_rotations", i>>,
                                    <<"m_reference_positions", i>>,
                                    <<"m_rotations", i>>, <<"m_positions", i>> >>],
                     [kind |-> "velocity", step |-> i,
                      blocks |-> << <<"m_twists", i>>, <<"m_twists", i - 1>> >>],
                     [kind |-> "kinematic", step |-> i,
                      blocks |-> << <<"m_rotations", i>>, <<"m_positions", i>>,
                                    <<"m_rotations", i - 1>>, <<"m_positions", i - 1>>,
                                    <<"m_twists", i - 1>> >>] >>])
    ELSE p

\* Mutant: the blocks of step 0 are not set constant.
build_optimization_problem_free_start ==
    BuildFrom(1,
        [blocks |-> { <<"m_rotations", 0>>, <<"m_positions", 0>>, <<"m_twists", 0>> },
         constant |-> {},
         fixed_twist_components |-> {2},
         residuals |-> << >>])

build_optimization_problem ==
    BuildFrom(1,
        [blocks |-> { <<"m_rotations", 0>>, <<"m_positions", 0>>, <<"m_twists", 0>> },
         constant |-> { <<"m_rotations", 0>>, <<"m_positions", 0>>, <<"m_twists", 0>> },
         fixed_twist_components |-> {2},
         residuals |-> << >>])

\* Mutant: the recorded ids are not cleared before the new ones are added.
KinematicResidualIdsKept(p) ==
    m_kinematic_constraint_residuals \o
        SelectSeq([k \in 1..Len(p.residuals) |-> k],
                  LAMBDA k : p.residuals[k].kind = "kinematic")

\* The ids build_optimization_problem records: those of the kinematic blocks.
KinematicResidualIds(p) ==
    SelectSeq([k \in 1..Len(p.residuals) |-> k],
              LAMBDA k : p.residuals[k].kind = "kinematic")

\* Mpc::is_feasible: every recorded kinematic residual costs at most
\* max_constraint_cost at the current values of the buffers.
is_feasible ==
    \A n \in 1..Len(m_kinematic_constraint_residuals) :
        LET id == m_kinematic_constraint_residuals[n]
        IN  ~ (KinematicCost(m_rotations, m_positions, m_twists,
                             problem.residuals[id].step, m_options.time_step)
                   > m_options.max_constraint_cost)

\* solve() past the precondition and up to the loop: initial values, problem
\* construction, locals.
SolveSetUp ==
    /\ m_rotations' = generate_initial_values.rotations
    /\ m_positions' = generate_initial_values.positions
    /\ m_twists' = generate_initial_values.twists
    /\ problem' = build_optimization_problem
    /\ m_kinematic_constraint_residuals' = KinematicResidualIds(problem')
    /\ iteration' = 0
    /\ penalty_coefficient' = 1
    /\ pc' = "while"
    /\ raised' = FALSE
    /\ warned' = FALSE
    /\ engine_calls' = 0
    /\ coefficient_log' = << >>
    /\ feasible_log' = << >>
    /\ solve_count' = solve_count + 1
    /\ UNCHANGED << firmware, m_options, m_reference_rotations, m_reference_positions,
                    m_reference_path_set, m_problem_size,
                    m_constraint_penalty_coefficient_handle, last_path,
                    setter_since_solve, optimal_path, read_out_of_range >>

\* Mutant: the precondition is not checked and solve() carries on.
SolveThrowUnchecked ==
    /\ CallEntry("solve")
    /\ ~ m_reference_path_set
    /\ SolveSetUp

\* solve() called without a reference path: logs, throws, touches nothing.
SolveThrow ==
    /\ CallEntry("solve")
    /\ ~ m_reference_path_set
    /\ raised' = TRUE
    /\ warned' = FALSE
    /\ engine_calls' = 0
    /\ coefficient_log' = << >>
    /\ feasible_log' = << >>
    /\ UNCHANGED << firmware, m_options, object, locals, last_path, solve_count,
                    setter_since_solve, optimal_path, read_out_of_range >>

\* solve() called with a reference path set.
SolveBegin ==
    /\ CallEntry("solve")
    /\ m_reference_path_set
    /\ SolveSetUp

\* Mutant: the loop runs while iteration <= max_penalty_iterations.
SolveWhileOffByOne ==
    /\ pc = "while"
    /\ pc' = IF iteration <= m_options.max_penalty_iterations THEN "reset" ELSE "after"
    /\ UNCHANGED << firmware, m_options, object, problem, iteration, penalty_coefficient,
                    calls, last_call, last_path, solve_obs, solve_count,
                    setter_since_solve, optimal_path, read_out_of_range >>

\* while (iteration < max_penalty_iterations)
SolveWhile ==
    /\ pc = "while"
    /\ pc' = IF iteration < m_options.max_penalty_iterations THEN "reset" ELSE "after"
    /\ UNCHANGED << firmware, m_options, object, problem, iteration, penalty_coefficient,
                    calls, last_call, last_path, solve_obs, solve_count,
                    setter_since_solve, optimal_path, read_out_of_range >>

\* Mutant: the iteration counter is not advanced.
SolveResetNoIncrement ==
    /\ pc = "reset"
    /\ iteration' = iteration
    /\ m_constraint_penalty_coefficient_handle' = << penalty_coefficient >>
    /\ coefficient_log' = Append(coefficient_log, penalty_coefficient)
    /\ pc' = "ceres"
    /\ UNCHANGED << firmware, m_options, m_rotations, m_positions, m_twists,
                    m_reference_rotations, m_reference_positions,
                    m_reference_path_set, m_problem_size,
                    m_kinematic_constraint_residuals, problem, penalty_coefficient,
                    calls, last_call, last_path, raised, warned, engine_calls,
                    feasible_log, solve_count, setter_since_solve, optimal_path,
                    read_out_of_range >>

\* ++iteration; the handle is reset to a ScaledLoss of the coefficient.
SolveReset ==
    /\ pc = "reset"
    /\ iteration' = iteration + 1
    /\ m_constraint_penalty_coefficient_handle' = << penalty_coefficient >>
    /\ coefficient_log' = Append(coefficient_log, penalty_coefficient)
    /\ pc' = "ceres"
    /\ UNCHANGED << firmware, m_options, m_rotations, m_positions, m_twists,
                    m_reference_rotations, m_reference_positions,
                    m_reference_path_set, m_problem_size,
                    m_kinematic_constraint_residuals, problem, penalty_coefficient,
                    calls, last_call, last_path, raised, warned, engine_calls,
                    feasible_log, solve_count, setter_since_solve, optimal_path,
                    read_out_of_range >>

\* Indices whose block of the given buffer the engine may change.
Free(p, buffer) ==
    { b[2] : b \in { c \in p.blocks \ p.constant : c[1] = buffer } }

\* A twist as the engine may change it: every component the subset
\* parameterization does not fix moves.
MovedTwist(p, t) ==
    [c \in 1..3 |-> IF (c - 1) \in p.fixed_twist_components THEN t[c] ELSE t[c] + 1]

\* ceres::Solve: the engine rewrites non-constant parameter blocks in place.
\* It moves the poses of any set of steps onto their reference poses (or,
\* were a reference block not constant, the reference onto the pose) and
\* moves the twists of any set of steps.
SolveCeres ==
    /\ pc = "ceres"
    /\ \E P \in SUBSET (Free(problem, "m_rotations") \cup Free(problem, "m_positions")),
          T \in SUBSET Free(problem, "m_twists"),
          R \in SUBSET (Free(problem, "m_reference_rotations")
                            \cup Free(problem, "m_reference_positions")) :
          /\ m_rotations' =
                [j \in 1..Len(m_rotations) |->
                    IF (j - 1) \in P /\ (j - 1) \in Free(problem, "m_rotations")
                    THEN m_reference_rotations[j] ELSE m_rotations[j]]
          /\ m_positions' =
                [j \in 1..Len(m_positions) |->
                    IF (j - 1) \in P /\ (j - 1) \in Free(problem, "m_positions")
                    THEN m_reference_positions[j] ELSE m_positions[j]]
          /\ m_twists' =
                [j \in 1..Len(m_twists) |->
                    IF (j - 1) \in T THEN MovedTwist(problem, m_twists[j]) ELSE m_twists[j]]
          /\ m_reference_rotations' =
                [j \in 1..Len(m_reference_rotations) |->
                    IF (j - 1) \in R /\ (j - 1) \in Free(problem, "m_reference_rotations")
                    THEN m_rotations[j] ELSE m_reference_rotations[j]]
          /\ m_reference_positions' =
                [j \in 1..Len(m_reference_positions) |->
                    IF (j - 1) \in R /\ (j - 1) \in Free(problem, "m_reference_positions")
                    THEN m_positions[j] ELSE m_reference_positions[j]]
    /\ engine_calls' = engine_calls + 1
    /\ pc' = "is_feasible"
    /\ UNCHANGED << firmware, m_options, m_reference_path_set, m_problem_size,
                    m_constraint_penalty_coefficient_handle,
                    m_kinematic_constraint_residuals, problem, iteration,
                    penalty_coefficient, calls, last_call, last_path, raised, warned,
                    coefficient_log, feasible_log, solve_count, setter_since_solve,
                    optimal_path, read_out_of_range >>

\* Mutant: the factor is added instead of multiplied.
NextPenaltyCoefficientAdded(c) == c + m_options.penalty_increase_factor

\* penalty_coefficient *= penalty_increase_factor
NextPenaltyCoefficient(c) == c * m_options.penalty_increase_factor

\* Mutant: a feasible iteration does not leave the loop.
SolveIsFeasibleNoBreak ==
    /\ pc = "is_feasible"
    /\ feasible_log' = Append(feasible_log, is_feasible)
    /\ pc' = "while"
    /\ penalty_coefficient' =
           IF is_feasible THEN penalty_coefficient
           ELSE NextPenaltyCoefficient(penalty_coefficient)
    /\ UNCHANGED << firmware, m_options, object, problem, iteration, calls, last_call,
                    last_path, raised, warned, engine_calls, coefficient_log,
                    solve_count, setter_since_solve, optimal_path, read_out_of_range >>

\* if (is_feasible(problem)) break; else the coefficient grows.
SolveIsFeasible ==
    /\ pc = "is_feasible"
    /\ feasible_log' = Append(feasible_log, is_feasible)
    /\ IF is_feasible
       THEN /\ pc' = "after"
            /\ UNCHANGED penalty_coefficient
       ELSE /\ pc' = "while"
            /\ penalty_coefficient' = NextPenaltyCoefficient(penalty_coefficient)
    /\ UNCHANGED << firmware, m_options, object, problem, iteration, calls, last_call,
                    last_path, raised, warned, engine_calls, coefficient_log,
                    solve_count, setter_since_solve, optimal_path, read_out_of_range >>

\* Mutant: the handle is put back to a scale of 1 after the loop.
SolveAfterRestoring ==
    /\ pc = "after"
    /\ warned' = (iteration >= m_options.max_penalty_iterations)
    /\ pc' = "idle"
    /\ problem' = NoProblem
    /\ setter_since_solve' = FALSE
    /\ m_constraint_penalty_coefficient_handle' = << 1 >>
    /\ UNCHANGED << firmware, m_options, m_rotations, m_positions, m_twists,
                    m_reference_rotations, m_reference_positions,
                    m_reference_path_set, m_problem_size,
                    m_kinematic_constraint_residuals, iteration, penalty_coefficient,
                    calls, last_call, last_path, raised, engine_calls, coefficient_log,
                    feasible_log, solve_count, optimal_path, read_out_of_range >>

\* After the loop: the warning, then solve() returns and its problem dies.
SolveAfter ==
    /\ pc = "after"
    /\ warned' = (iteration >= m_options.max_penalty_iterations)
    /\ pc' = "idle"
    /\ problem' = NoProblem
    /\ setter_since_solve' = FALSE
    /\ UNCHANGED << firmware, m_options, object, iteration, penalty_coefficient, calls,
                    last_call, last_path, raised, engine_calls, coefficient_log,
                    feasible_log, solve_count, optimal_path, read_out_of_range >>

\* ---------------------------------------------------------------- read-out
\* Indices get_optimal_path reads that the pose buffers do not hold.
OutOfRange ==
    { i \in 0..(m_problem_size - 1) : i >= Len(m_rotations) \/ i >= Len(m_positions) }

\* Mpc::get_optimal_path: problem-size poses read from the pose buffers.  An
\* index past the end of a buffer is undefined behaviour: the call crashes or
\* yields whatever the memory holds.
get_optimal_path ==
    /\ CallEntry("get_optimal_path")
    /\ read_out_of_range' = (OutOfRange # {})
    /\ \/ /\ \E garbage \in [OutOfRange -> GarbagePoses] :
                optimal_path' =
                    [frame_id |-> "map",
                     poses |-> [j \in 1..m_problem_size |->
                        IF (j - 1) \in OutOfRange
                        THEN [position |-> garbage[j - 1].position,
                              orientation |-> garbage[j - 1].orientation]
                        ELSE [position |-> << m_positions[j][1], m_positions[j][2], 0 >>,
                              orientation |-> to_quaternion(m_rotations[j])]]]
          /\ UNCHANGED pc
       \/ /\ OutOfRange # {}
          /\ pc' = "crashed"
          /\ UNCHANGED optimal_path
    /\ UNCHANGED << firmware, m_options, object, problem, iteration, penalty_coefficient,
                    last_path, solve_obs, solve_count, setter_since_solve >>

\* ---------------------------------------------------------------- firmware
ConfigResults == {"Success", "AllocationError", "TimerRegistrationError"}

\* pet::nh.spinOnce(): time passes (the millisecond counter wraps), the
\* serial link is found up or down, and a time message of the server, if one
\* arrives, is stamped with the time of its receipt.
nh_spinOnce ==
    \E passed \in {0, 1}, up \in BOOLEAN, response \in BOOLEAN :
        /\ fw_clock' = (fw_clock + passed) % FwClockValues
        /\ nh_connected' = up
        /\ IF response /\ fw_responses < FwMaxResponses
           THEN /\ nh_sync_receive_time' = fw_clock'
                /\ fw_responses' = fw_responses + 1
                /\ nh_sync_requested' = FALSE
           ELSE UNCHANGED << nh_sync_receive_time, fw_responses, nh_sync_requested >>

\* pet::nh.initNode()
FwInitNode ==
    /\ fw_pc = "initNode"
    /\ fw_pc' = "wait_connected"
    /\ UNCHANGED << mpc, fw_last_sync_time, fw_result, fw_timer_started, fw_timer_spun,
                    nh_connected, nh_sync_receive_time, nh_sync_requested, fw_clock,
                    fw_reported_connected, fw_responses, fw_responses_at_read >>

\* while (!pet::nh.connected()) pet::nh.spinOnce();
FwWaitConnected ==
    /\ fw_pc = "wait_connected"
    /\ IF nh_connected
       THEN /\ fw_pc' = "configure"
            /\ fw_reported_connected' = TRUE
            /\ UNCHANGED << nh_connected, nh_sync_receive_time, nh_sync_requested,
                            fw_clock, fw_responses >>
       ELSE /\ nh_spinOnce
            /\ UNCHANGED << fw_pc, fw_reported_connected >>
    /\ UNCHANGED << mpc, fw_last_sync_time, fw_result, fw_timer_started, fw_timer_spun,
                    fw_responses_at_read >>

\* pet::configure_modules() and the log line of its result.
FwConfigure ==
    /\ fw_pc = "configure"
    /\ fw_result' \in ConfigResults
    /\ fw_pc' = "negotiate"
    /\ UNCHANGED << mpc, fw_last_sync_time, fw_timer_started, fw_timer_spun,
                    nh_connected, nh_sync_receive_time, nh_sync_requested, fw_clock,
                    fw_reported_connected, fw_responses, fw_responses_at_read >>

\* synchronise_with_server: pet::nh.negotiateTopics()
FwNegotiate ==
    /\ fw_pc = "negotiate"
    /\ fw_pc' = "read_sync"
    /\ UNCHANGED << mpc, fw_last_sync_time, fw_result, fw_timer_started, fw_timer_spun,
                    nh_connected, nh_sync_receive_time, nh_sync_requested, fw_clock,
                    fw_reported_connected, fw_responses, fw_responses_at_read >>

\* last_sync_time = pet::nh.get_last_sync_receive_time()
FwReadSync ==
    /\ fw_pc = "read_sync"
    /\ fw_last_sync_time' = nh_sync_receive_time
    /\ fw_responses_at_read' = fw_responses
    /\ fw_pc' = "request"
    /\ UNCHANGED << mpc, fw_result, fw_timer_started, fw_timer_spun,
                    nh_connected, nh_sync_receive_time, nh_sync_requested, fw_clock,
                    fw_reported_connected, fw_responses >>

\* pet::nh.requestSyncTime()
FwRequestSync ==
    /\ fw_pc = "request"
    /\ nh_sync_requested' = TRUE
    /\ fw_pc' = "wait_sync"
    /\ UNCHANGED << mpc, fw_last_sync_time, fw_result, fw_timer_started, fw_timer_spun,
                    nh_connected, nh_sync_receive_time, fw_clock,
                    fw_reported_connected, fw_responses, fw_responses_at_read >>

\* Mutant: the wait ends as soon as the receive time equals the one read.
FwWaitSyncInverted ==
    /\ fw_pc = "wait_sync"
    /\ IF fw_last_sync_time # nh_sync_receive_time
       THEN /\ nh_spinOnce
            /\ UNCHANGED fw_pc
       ELSE /\ fw_pc' = "start"
            /\ UNCHANGED << nh_connected, nh_sync_receive_time, nh_sync_requested,
                            fw_clock, fw_responses >>
    /\ UNCHANGED << mpc, fw_last_sync_time, fw_result, fw_timer_started, fw_timer_spun,
                    fw_reported_connected, fw_responses_at_read >>

\* while (last_sync_time == pet::nh.get_last_sync_receive_time()) spinOnce();
FwWaitSync ==
    /\ fw_pc = "wait_sync"
    /\ IF fw_last_sync_time = nh_sync_receive_time
       THEN /\ nh_spinOnce
            /\ UNCHANGED fw_pc
       ELSE /\ fw_pc' = "start"
            /\ UNCHANGED << nh_connected, nh_sync_receive_time, nh_sync_requested,
                            fw_clock, fw_responses >>
    /\ UNCHANGED << mpc, fw_last_sync_time, fw_result, fw_timer_started, fw_timer_spun,
                    fw_reported_connected, fw_responses_at_read >>

\* pet::g_timer.start(), the last log line; setup() returns and loop() runs.
FwStartTimer ==
    /\ fw_pc = "start"
    /\ fw_timer_started' = TRUE
    /\ fw_pc' = "loop_spin"
    /\ UNCHANGED << mpc, fw_last_sync_time, fw_result, fw_timer_spun,
                    nh_connected, nh_sync_receive_time, nh_sync_requested, fw_clock,
                    fw_reported_connected, fw_responses, fw_responses_at_read >>

\* loop(): pet::nh.spinOnce()
FwLoopSpin ==
    /\ fw_pc = "loop_spin"
    /\ nh_spinOnce
    /\ fw_pc' = "loop_timer"
    /\ UNCHANGED << mpc, fw_last_sync_time, fw_result, fw_timer_started, fw_timer_spun,
                    fw_reported_connected, fw_responses_at_read >>

\* loop(): pet::g_timer.spin_once(), the only place timer callbacks run.
FwLoopTimer ==
    /\ fw_pc = "loop_timer"
    /\ fw_timer_spun' = TRUE
    /\ fw_pc' = "loop_spin"
    /\ UNCHANGED << mpc, fw_last_sync_time, fw_result, fw_timer_started,
                    nh_connected, nh_sync_receive_time, nh_sync_requested, fw_clock,
                    fw_reported_connected, fw_responses, fw_responses_at_read >>

FwNext ==
    \/ FwInitNode
    \/ FwWaitConnected
    \/ FwConfigure
    \/ FwNegotiate
    \/ FwReadSync
    \/ FwRequestSync
    \/ FwWaitSync
    \/ FwStartTimer
    \/ FwLoopSpin
    \/ FwLoopTimer

FirmwareSpec == Init /\ [][FwNext]_vars

\* ---------------------------------------------------------------- behaviour
Next ==
    \/ \E reference_path \in InputPaths : set_reference_path(reference_path)
    \/ \E initial_pose \in InputPoses : set_initial_pose(initial_pose)
    \/ \E initial_twist \in InputTwists : set_initial_twist(initial_twist)
    \/ SolveThrow
    \/ SolveBegin
    \/ SolveWhile
    \/ SolveReset
    \/ SolveCeres
    \/ SolveIsFeasible
    \/ SolveAfter
    \/ get_optimal_path

Spec == Init /\ [][Next]_vars

\* A step of a solve() that is under way.
SolveStep ==
    \/ SolveWhile
    \/ SolveReset
    \/ SolveCeres
    \/ SolveIsFeasible
    \/ SolveAfter

TypeOK ==
    /\ pc \in {"idle", "while", "reset", "ceres", "is_feasible", "after", "crashed"}
    /\ m_problem_size \in 0..3
    /\ Len(m_rotations) >= 1 /\ Len(m_positions) >= 1 /\ Len(m_twists) >= 1

\* ---------------------------------------------------------------- claims
NeverFeasible == \A k \in 1..Len(feasible_log) : ~ feasible_log[k]

SolveReturned == pc = "idle" /\ last_call = "solve" /\ ~ raised

\* C1: a solve() on an instance without a reference path raises the
\* precondition error, changes no member and no local of the instance and
\* never reaches the engine, whatever setters were called before.
C1_SolveWithoutReferenceThrows ==
    [][ (pc = "idle" /\ ~ m_reference_path_set /\ calls' = calls + 1 /\ last_call' = "solve")
            => (raised' /\ pc' = "idle" /\ engine_calls' = 0
                /\ UNCHANGED << object, problem, iteration, penalty_coefficient >>) ]_vars

C1_Witness ==
    /\ raised /\ last_call = "solve" /\ calls >= 3
    /\ m_twists # << <<0, 0, 0>> >>
    /\ m_positions # << <<0, 0>> >>

\* C2 (as claimed): after every solve() that completes, the horizon rotation,
\* position and twist buffers each hold exactly problem-size entries, as many
\* as the stored reference.
C2_HorizonHoldsProblemSize ==
    SolveReturned =>
        /\ Len(m_rotations) = m_problem_size
        /\ Len(m_positions) = m_problem_size
        /\ Len(m_twists) = m_problem_size
        /\ Len(m_reference_positions) = m_problem_size
        /\ Len(m_reference_rotations) = m_problem_size

\* C3 (as claimed): in every solve(), at the first engine call, each step
\* i in 1..N-1 holds the pose propagated from step i-1 under the twist of
\* step 0, and the twist of step 0.
C3_FirstEngineCallGetsSeed ==
    (pc = "ceres" /\ iteration = 1) =>
        \A i \in 1..(m_problem_size - 1) :
            /\ [rotation |-> m_rotations[i + 1], position |-> m_positions[i + 1]]
                   = propagate([rotation |-> m_rotations[i], position |-> m_positions[i]],
                               m_twists[1], m_options.time_step)
            /\ m_twists[i + 1] = m_twists[1]

\* C4 (as claimed): once a solve() has succeeded, every get_optimal_path()
\* returns problem-size poses, each read from an existing horizon entry.
C4_ReadOutWithinHorizon ==
    (solve_count > 0 /\ last_call = "get_optimal_path") =>
        /\ ~ read_out_of_range
        /\ pc = "idle"
        /\ Len(optimal_path.poses) = m_problem_size

\* C5 (as claimed): a completed solve() has emitted the iteration-limit
\* warning if and only if none of its iterations was feasible.
C5_WarningIffNeverFeasible ==
    SolveReturned => (warned <=> NeverFeasible)

\* C6 (as claimed): the lateral component of the step-0 twist is zero after
\* set_initial_twist, and so is the lateral component of every horizon twist
\* of steps 0..N-1 during and after a solve().
C6_LateralZero ==
    /\ last_call = "set_initial_twist" => m_twists[1][3] = 0
    /\ (last_call = "solve" /\ ~ raised) =>
           \A i \in 1..m_problem_size : m_twists[i][3] = 0

\* C7: after set_reference_path with a path of length L >= 1, problem size is
\* min(L, max_num_poses) and the stored reference is exactly the first
\* problem-size poses of that path.
C7_ReferenceReplaced ==
    last_call = "set_reference_path" =>
        /\ m_problem_size = Min(Len(last_path), m_options.max_num_poses)
        /\ Len(m_reference_positions) = m_problem_size
        /\ Len(m_reference_rotations) = m_problem_size
        /\ \A i \in 1..m_problem_size :
              /\ m_reference_positions[i]
                     = << last_path[i].position[1], last_path[i].position[2] >>
              /\ m_reference_rotations[i] = from_quaternion(last_path[i].orientation)

\* A shorter path replaced a longer one that a solve() had worked on.
C7_Witness ==
    /\ last_call = "set_reference_path"
    /\ solve_count > 0
    /\ m_problem_size < Len(m_positions)
    /\ Len(m_positions) = Len(m_twists)

\* C8: in each solve() the coefficient applied on iteration 1 is 1, the one
\* applied on iteration k+1 is the one of iteration k times
\* penalty_increase_factor (iteration k not having been feasible), and the
\* applied coefficients never decrease.
C8_CoefficientSequence ==
    /\ Len(coefficient_log) >= 1 => coefficient_log[1] = 1
    /\ \A k \in 1..(Len(coefficient_log) - 1) :
          /\ ~ feasible_log[k]
          /\ coefficient_log[k + 1] = coefficient_log[k] * m_options.penalty_increase_factor
          /\ coefficient_log[k + 1] >= coefficient_log[k]
    /\ Len(coefficient_log) >= 1 =>
          m_constraint_penalty_coefficient_handle
              = << coefficient_log[Len(coefficient_log)] >>

\* A second solve() of the instance in its second iteration.
C8_Witness ==
    /\ solve_count >= 2
    /\ Len(coefficient_log) >= 2

\* C9: once iteration k of a solve() is feasible, k <= max_penalty_iterations,
\* the engine has been invoked exactly k times, no further iteration runs and
\* the coefficient stays the one applied on iteration k.
C9_StopsWhenFeasible ==
    \A k \in 1..Len(feasible_log) :
        feasible_log[k] =>
            /\ k <= m_options.max_penalty_iterations
            /\ k = Len(feasible_log)
            /\ engine_calls = k
            /\ iteration = k
            /\ pc \in {"after", "idle", "crashed"}
            /\ penalty_coefficient = coefficient_log[k]
            /\ m_constraint_penalty_coefficient_handle = << coefficient_log[k] >>

\* A solve() returned after becoming feasible on its second iteration.
C9_Witness ==
    /\ SolveReturned
    /\ Len(feasible_log) = 2
    /\ feasible_log[2]

\* C10: a solve() none of whose iterations was feasible returns without
\* error after exactly max_penalty_iterations engine calls and with the
\* warning emitted, and get_optimal_path() then returns problem-size poses.
C10_IterationLimit ==
    /\ (SolveReturned /\ NeverFeasible) =>
          /\ engine_calls = m_options.max_penalty_iterations
          /\ Len(feasible_log) = m_options.max_penalty_iterations
          /\ warned
    /\ (last_call = "get_optimal_path" /\ solve_count > 0 /\ ~ setter_since_solve
            /\ NeverFeasible) =>
          /\ ~ raised
          /\ pc = "idle"
          /\ ~ read_out_of_range
          /\ Len(optimal_path.poses) = m_problem_size

\* The path was read right after a solve() that used up two iterations.
C10_Witness ==
    /\ last_call = "get_optimal_path"
    /\ ~ setter_since_solve
    /\ Len(feasible_log) = 2
    /\ NeverFeasible
    /\ Len(optimal_path.poses) = 3

\* C11: no step of solve() changes entry 0 of the horizon rotation, position
\* or twist buffer: it stays what the constructor or the last setter put
\* there, whatever the engine does to the other steps.
C11_StepZeroFixed ==
    [][ last_call' = "solve" =>
            /\ m_rotations'[1] = m_rotations[1]
            /\ m_positions'[1] = m_positions[1]
            /\ m_twists'[1] = m_twists[1] ]_vars

\* A solve() returned whose engine moved step 1 away from a step 0 that both
\* setters had supplied.
C11_Witness ==
    /\ SolveReturned
    /\ engine_calls >= 1
    /\ m_problem_size >= 2
    /\ m_twists[1] = <<1, 1, 1>>
    /\ m_positions[1] = <<1, 0>>
    /\ m_twists[2] # m_twists[1]
    /\ m_positions[2] = m_reference_positions[2]

\* C12 (as claimed): with max_penalty_iterations = 0 a solve() makes no engine
\* call and no feasibility evaluation and leaves, at steps 1..N-1, the poses
\* propagated from step 0 under the twist of step 0, which get_optimal_path
\* then returns.
C12_ZeroIterationsLeavesSeed ==
    (m_options.max_penalty_iterations = 0 /\ solve_count > 0 /\ ~ setter_since_solve
         /\ pc = "idle") =>
        /\ engine_calls = 0
        /\ feasible_log = << >>
        /\ \A i \in 1..(m_problem_size - 1) :
              /\ [rotation |-> m_rotations[i + 1], position |-> m_positions[i + 1]]
                     = propagate([rotation |-> m_rotations[i], position |-> m_positions[i]],
                                 m_twists[1], m_options.time_step)
              /\ m_twists[i + 1] = m_twists[1]
        /\ last_call = "get_optimal_path" =>
              \A i \in 1..m_problem_size :
                  optimal_path.poses[i] =
                      [position |-> << m_positions[i][1], m_positions[i][2], 0 >>,
                       orientation |-> to_quaternion(m_rotations[i])]

\* Steps solve() still has to take, at most, from where it stands.
StepsLeft ==
    CASE pc = "while" -> 4 * (m_options.max_penalty_iterations - iteration) + 2
      [] pc = "reset" -> 4 * (m_options.max_penalty_iterations - iteration) + 1
      [] pc = "ceres" -> 4 * (m_options.max_penalty_iterations - iteration) + 4
      [] pc = "is_feasible" -> 4 * (m_options.max_penalty_iterations - iteration) + 3
      [] pc = "after" -> 1
      [] OTHER -> 0

\* A solve() that has not returned can take its next step.
SolveCanStep == (pc # "idle" /\ pc # "crashed") => ENABLED SolveStep

\* C13: a solve() on an instance with a reference path never makes more than
\* max_penalty_iterations engine calls and always returns to the caller:
\* each of its steps brings the return nearer, whatever the feasibility
\* check answers.
C13_SolveReturns ==
    /\ [](engine_calls <= m_options.max_penalty_iterations)
    /\ [][ (pc # "idle" /\ pc # "crashed") =>
              (StepsLeft' < StepsLeft /\ StepsLeft' >= 0) ]_vars

\* A second solve() of an instance returned after using all its iterations.
C13_Witness ==
    /\ SolveReturned
    /\ solve_count = 2
    /\ engine_calls = 2
    /\ feasible_log = <<FALSE, TRUE>>

\* C14: only a set_reference_path call changes problem size or the stored
\* reference (no setter of the initial state, no step of solve(), no
\* get_optimal_path does), and a set_reference_path call changes none of the
\* horizon rotation, position and twist buffers.
C14_ReferenceFrame ==
    [][ /\ ~ (calls' = calls + 1 /\ last_call' = "set_reference_path") =>
               UNCHANGED << m_problem_size, m_reference_rotations, m_reference_positions >>
        /\ (calls' = calls + 1 /\ last_call' = "set_reference_path") =>
               UNCHANGED << m_rotations, m_positions, m_twists >> ]_vars

\* A new reference was set on an instance whose horizon an engine call had
\* moved away from the earlier reference's seed.
C14_Witness ==
    /\ last_call = "set_reference_path"
    /\ solve_count > 0
    /\ engine_calls >= 1
    /\ Len(m_twists) >= 2
    /\ m_twists[2] # m_twists[1]
    /\ m_problem_size # Len(m_positions)

\* Places of the residual blocks of a kind and step in the problem.
ResidualsOf(kind, i) ==
    { k \in 1..Len(problem.residuals) :
          problem.residuals[k].kind = kind /\ problem.residuals[k].step = i }

\* C15: during a solve() with problem size N the problem holds, for every
\* step i in 1..N-1 and for no other step, one reference-tracking, one
\* velocity-change (twists i and i-1) and one kinematic-consistency (poses i
\* and i-1, twist i-1) residual, and the recorded handles are the N-1
\* kinematic ones of this solve; for N = 1 there is no residual, no handle,
\* and the first feasibility check succeeds.
C15_ResidualsPerStep ==
    (pc # "idle" /\ pc # "crashed") =>
        /\ Len(problem.residuals) = 3 * (m_problem_size - 1)
        /\ \A k \in 1..Len(problem.residuals) :
              problem.residuals[k].step \in 1..(m_problem_size - 1)
        /\ \A i \in 1..(m_problem_size - 1) :
              /\ \A kind \in {"reference", "velocity", "kinematic"} :
                    Cardinality(ResidualsOf(kind, i)) = 1
              /\ \A k \in ResidualsOf("velocity", i) :
                    problem.residuals[k].blocks = << <<"m_twists", i>>, <<"m_twists", i - 1>> >>
              /\ \A k \in ResidualsOf("kinematic", i) :
                    problem.residuals[k].blocks =
                        << <<"m_rotations", i>>, <<"m_positions", i>>,
                           <<"m_rotations", i - 1>>, <<"m_positions", i - 1>>,
                           <<"m_twists", i - 1>> >>
        /\ Len(m_kinematic_constraint_residuals) = m_problem_size - 1
        /\ \A n \in 1..Len(m_kinematic_constraint_residuals) :
              m_kinematic_constraint_residuals[n] \in ResidualsOf("kinematic", n)
        /\ (m_problem_size = 1 /\ Len(feasible_log) >= 1) => feasible_log[1]

\* The second solve() of an instance, with three steps, after its first
\* feasibility check.
C15_Witness ==
    /\ pc \in {"while", "after"}
    /\ Len(feasible_log) = 1
    /\ solve_count = 2
    /\ m_problem_size = 3
    /\ Len(m_kinematic_constraint_residuals) = 2

\* C16: the penalty scale is written only by the step at the top of an
\* iteration, which puts the current coefficient there and is followed by
\* that iteration's engine call; from the engine call to the end of the
\* feasibility check it has been written once per iteration so far and holds
\* the coefficient of the running iteration; no later step of the solve()
\* writes it.
C16_ScaleWrittenAtTop ==
    [][ /\ (m_constraint_penalty_coefficient_handle' # m_constraint_penalty_coefficient_handle
               \/ Len(coefficient_log') > Len(coefficient_log)) =>
              /\ pc = "reset" /\ pc' = "ceres"
              /\ iteration' = iteration + 1
              /\ m_constraint_penalty_coefficient_handle' = << penalty_coefficient >>
              /\ coefficient_log' = Append(coefficient_log, penalty_coefficient)
        /\ (pc \in {"ceres", "is_feasible"}) =>
              /\ Len(coefficient_log) = iteration
              /\ m_constraint_penalty_coefficient_handle = << coefficient_log[iteration] >>
              /\ penalty_coefficient = coefficient_log[iteration]
              /\ UNCHANGED m_constraint_penalty_coefficient_handle ]_vars

\* The feasibility check of a second iteration, under a scale above 1.
C16_Witness ==
    /\ pc = "is_feasible"
    /\ iteration = 2
    /\ m_constraint_penalty_coefficient_handle = << m_options.penalty_increase_factor >>

\* Number of entries of the vector a parameter block points into.
BufferLen(buffer) ==
    CASE buffer = "m_rotations" -> Len(m_rotations)
      [] buffer = "m_positions" -> Len(m_positions)
      [] buffer = "m_twists" -> Len(m_twists)
      [] buffer = "m_reference_rotations" -> Len(m_reference_rotations)
      [] OTHER -> Len(m_reference_positions)

\* C17: every entry build_optimization_problem reads (as a parameter block or
\* as an argument of a residual block) exists: its index is within the
\* vector, and the vectors hold at least problem-size entries.
C17_BlocksExist ==
    (pc # "idle" /\ pc # "crashed") =>
        /\ \A b \in problem.blocks : b[2] >= 0 /\ b[2] < BufferLen(b[1])
        /\ \A k \in 1..Len(problem.residuals) :
              \A n \in 1..Len(problem.residuals[k].blocks) :
                  /\ problem.residuals[k].blocks[n] \in problem.blocks
                  /\ problem.residuals[k].blocks[n][2]
                         < BufferLen(problem.residuals[k].blocks[n][1])
        /\ \A buffer \in {"m_rotations", "m_positions", "m_twists",
                          "m_reference_rotations", "m_reference_positions"} :
              BufferLen(buffer) >= m_problem_size

\* A solve() with three steps on an instance whose pose, but not twist, was
\* set anew after an earlier solve().
C17_Witness ==
    /\ pc = "while"
    /\ solve_count = 2
    /\ m_problem_size = 3
    /\ Len(m_positions) = 3
    /\ Len(m_twists) = 5

\* C18: the timer is started, and its callbacks get to run in loop(), only
\* after connected() held at the end of the first wait and a time message
\* was received after the receive time had been read for the request,
\* whichever result the configuration of the modules had.
C18_TimerAfterSync ==
    /\ (fw_timer_started \/ fw_pc = "start") =>
          /\ fw_reported_connected
          /\ fw_result \in ConfigResults
          /\ fw_responses > fw_responses_at_read
    /\ fw_pc = "start" => nh_sync_receive_time # fw_last_sync_time
    /\ (fw_timer_spun \/ fw_pc \in {"loop_spin", "loop_timer"}) => fw_timer_started

\* Callbacks have run after a failed configuration and a second time message.
C18_Witness ==
    /\ fw_timer_spun
    /\ fw_result = "TimerRegistrationError"
    /\ fw_responses_at_read = 1
    /\ fw_responses = 2

====
